---------------------------- MODULE Spec2Model ----------------------------
(***************************************************************************)
(* gltext: a font atlas built once by generateAtlas and replayed by         *)
(* Font.Printf as one textured quad per character (src/font.go).            *)
(*                                                                          *)
(* Numbers.  Clip-space quantities (sx, w, h, advances, draw offsets) are   *)
(* exact integers here: the viewport sizes are drawn from the divisors of   *)
(* 2, so that sx = 2/width and sy = 2/height are whole, and every float32   *)
(* product and sum of the model's inputs is exact.  Pixel quantities that   *)
(* pass through uint32 (the atlas dimensions, the pen position gx) are      *)
(* 32-bit values kept as two 16-bit limbs <<hi, lo>>.                       *)
(***************************************************************************)
EXTENDS Integers, Sequences, FiniteSets, TLC

VARIABLES
    status,     \* "running" | "exited" (log.Fatal -> os.Exit) | "panicked"
    driver,     \* GLSL compiler of the context: [vsOk, fsOk]
    objs,       \* names of the live GL objects, by kind
    progs,      \* program name -> [shaders attached]
    bufData,    \* buffer name -> data store set by BufferData
    texImage,   \* texture name -> image set by TexImage2D
    gl,         \* context state: blend, blendFunc, program, vao, arrayBuffer, texture2D
    fonts,      \* the Font values returned so far, in creation order
    deleted,    \* indices of fonts on which Delete has run
    created,    \* per font: the GL names its NewFont call generated
    atlas,      \* verts, img, offsets: the result of a direct generateAtlas call
    draws,      \* the gl.DrawArrays calls of the most recent Printf
    call        \* the most recent call: operation, arguments, context on entry, exit

vars == <<status, driver, objs, progs, bufData, texImage, gl, fonts, deleted,
          created, atlas, draws, call>>

-----------------------------------------------------------------------------
(* Bounds of the model *)

MaxFonts == 2

MaxLen == 3

-----------------------------------------------------------------------------
(* 32-bit unsigned values as two 16-bit limbs *)

Limb == 256 * 256

U32(n) == <<n \div Limb, n % Limb>>

U32Zero == <<0, 0>>

U32Add(a, b) ==
    LET lo == a[2] + b[2]
        hi == a[1] + b[1] + (lo \div Limb)
    IN  <<hi % Limb, lo % Limb>>

\* n * m as a uint32, for 0 <= n < 2^31 and a small m with n * m < 2^32
U32Mul(n, m) ==
    LET lo == (n % Limb) * m
        hi == (n \div Limb) * m + (lo \div Limb)
    IN  <<hi % Limb, lo % Limb>>

U32Dec(a) ==
    IF a[2] > 0 THEN <<a[1], a[2] - 1>>
    ELSE IF a[1] > 0 THEN <<a[1] - 1, Limb - 1>>
    ELSE <<Limb - 1, Limb - 1>>

U32Inc(a) ==
    IF a[2] < Limb - 1 THEN <<a[1], a[2] + 1>>
    ELSE IF a[1] < Limb - 1 THEN <<a[1] + 1, 0>>
    ELSE <<0, 0>>

RECURSIVE TwoTo(_)
TwoTo(k) == IF k = 0 THEN 1 ELSE 2 * TwoTo(k - 1)

RECURSIVE BitOr(_, _)
BitOr(a, b) ==
    IF a = 0 THEN b
    ELSE IF b = 0 THEN a
    ELSE (IF a % 2 = 1 \/ b % 2 = 1 THEN 1 ELSE 0) + 2 * BitOr(a \div 2, b \div 2)

U32Or(a, b) == <<BitOr(a[1], b[1]), BitOr(a[2], b[2])>>

\* a >> k, for 1 <= k <= 16
U32Shr(a, k) ==
    <<a[1] \div TwoTo(k),
      (a[2] \div TwoTo(k)) + (a[1] % TwoTo(k)) * TwoTo(16 - k)>>

-----------------------------------------------------------------------------
(* glh.Pow2 of github.com/go-gl/glh (imported at line 8, called at lines     *)
(* 103-104), on uint32:                                                     *)
(*    x--; x |= x >> 1; x |= x >> 2; x |= x >> 4; x |= x >> 8;              *)
(*    x |= x >> 16; return x + 1                                            *)
(* Whatever its body, its result is a uint32: no power of two that it can   *)
(* return is at or above an argument beyond 2^31.                           *)

\* x |= x >> k
Smear(x, k) == U32Or(x, U32Shr(x, k))

Pow2(x) ==
    U32Inc(Smear(Smear(Smear(Smear(Smear(U32Dec(x), 1), 2), 4), 8), 16))

-----------------------------------------------------------------------------
(* The parsed font, an external collaborator: its bounding box and advance  *)
(* widths per unit of scale.  Metrics grow linearly with the scale.         *)

low == 32

high == 127

FontBounds(font, scale) ==
    [XMin |-> font.box.XMin * scale, XMax |-> font.box.XMax * scale,
     YMin |-> font.box.YMin * scale, YMax |-> font.box.YMax * scale]

AdvanceWidth(font, scale, ch) ==
    (IF font.mono THEN font.adv ELSE font.adv + (ch % 4)) * scale

-----------------------------------------------------------------------------
(* generateAtlas *)

Frac(n, d) == <<n, d>>

\* One iteration of the loop of generateAtlas for character ch.
AtlasStep(font, scale, sx, gw, gh, w, h, texWidth, texHeight, ch, st) ==
    LET offset == AdvanceWidth(font, scale, ch) * sx
        gy  == U32Zero
        tx1 == Frac(st.gx, texWidth)
        ty1 == Frac(gy, texHeight)
        tx2 == Frac(U32Add(st.gx, U32(gw)), texWidth)
        ty2 == Frac(U32Add(gy, U32(gh)), texHeight)
    IN  [gi      |-> st.gi + 1,
         gx      |-> U32Add(st.gx, U32(gw)),
         offsets |-> [st.offsets EXCEPT ![st.gi + 1] = offset],
         glyphs  |-> Append(st.glyphs, [ch |-> ch, x |-> st.gx]),
         verts   |-> st.verts \o << <<-1, 1, tx1, ty1>>,
                                    <<-1 + w, 1, tx2, ty1>>,
                                    <<-1, 1 - h, tx1, ty2>>,
                                    <<-1 + w, 1 - h, tx2, ty2>> >>]

\* The loop stopping one character early: ch < high.
RECURSIVE AtlasLoopShort(_, _, _, _, _, _, _, _, _, _, _)
AtlasLoopShort(font, scale, sx, gw, gh, w, h, texWidth, texHeight, ch, st) ==
    IF ch < high /\ st.gi >= 0
    THEN AtlasLoopShort(font, scale, sx, gw, gh, w, h, texWidth, texHeight, ch + 1,
                        AtlasStep(font, scale, sx, gw, gh, w, h, texWidth, texHeight, ch, st))
    ELSE st

\* for ch := low; ch <= high; ch++.  The conjunct st.gi >= 0 is always true (gi
\* counts up from 0); it makes TLC evaluate the loop state at every iteration
\* rather than as one nested expression at the end.
RECURSIVE AtlasLoop(_, _, _, _, _, _, _, _, _, _, _)
AtlasLoop(font, scale, sx, gw, gh, w, h, texWidth, texHeight, ch, st) ==
    IF ch <= high /\ st.gi >= 0
    THEN AtlasLoop(font, scale, sx, gw, gh, w, h, texWidth, texHeight, ch + 1,
                   AtlasStep(font, scale, sx, gw, gh, w, h, texWidth, texHeight, ch, st))
    ELSE st

generateAtlas(font, scale, width, height) ==
    LET glyphCount  == high - low + 1
        bounds      == FontBounds(font, scale)
        gw          == bounds.XMax - bounds.XMin
        gh          == bounds.YMax - bounds.YMin
        imageWidth  == Pow2(U32Mul(gw, glyphCount))
        imageHeight == Pow2(U32(gh))
        sx          == 2 \div width
        sy          == 2 \div height
        w           == gw * sx
        h           == gh * sy
        st0         == [gi |-> 0, gx |-> U32Zero,
                        offsets |-> [i \in 1..glyphCount |-> 0],
                        glyphs |-> <<>>, verts |-> <<>>]
        st          == AtlasLoop(font, scale, sx, gw, gh, w, h,
                                 imageWidth, imageHeight, low, st0)
    IN  [verts   |-> st.verts,
         img     |-> [Dx |-> imageWidth, Dy |-> imageHeight, glyphs |-> st.glyphs],
         offsets |-> st.offsets]

-----------------------------------------------------------------------------
(* The GL context *)

NoObjects ==
    [shaders |-> {}, programs |-> {}, vaos |-> {}, buffers |-> {}, textures |-> {}]

DefaultGL ==
    [blend |-> FALSE, blendFunc |-> <<"ONE", "ZERO">>, program |-> 0,
     vao |-> 0, arrayBuffer |-> 0, texture2D |-> 0]

\* A context in which nothing has been created yet.
EmptyContext ==
    [objs |-> NoObjects, progs |-> <<>>, bufData |-> <<>>, texImage |-> <<>>,
     gl |-> DefaultGL, fonts |-> <<>>, created |-> <<>>]

Context ==
    [objs |-> objs, progs |-> progs, bufData |-> bufData, texImage |-> texImage,
     gl |-> gl, fonts |-> fonts, created |-> created]

\* The names of one kind generated so far; the context hands out unused names.
Generated(c, kind) == {c.created[i][kind] : i \in DOMAIN c.created}

FreshName(used) == Cardinality(used) + 1

\* NewShader: the shader object s is created; on a compile failure the caller
\* gets gl.Shader(0) and an error, and s stays behind.
NewShader(name, compile_ok) ==
    [created |-> name,
     s       |-> IF compile_ok THEN name ELSE 0,
     err     |-> ~compile_ok]

\* NewProgram: a program with both handles attached (attaching 0 attaches nothing).
NewProgram(name, vs, fs) ==
    [program |-> name, attached |-> {vs, fs} \ {0}]

\* createProgram: both errors are logged and construction continues.
createProgram(c, drv) ==
    LET vsName == FreshName(Generated(c, "vs") \cup Generated(c, "fs"))
        vs     == NewShader(vsName, drv.vsOk)
        fs     == NewShader(vsName + 1, drv.fsOk)
        p      == NewProgram(FreshName(Generated(c, "program")), vs.s, fs.s)
    IN  [program  |-> p.program,
         attached |-> p.attached,
         vs       |-> vs.created,
         fs       |-> fs.created,
         objs     |-> [c.objs EXCEPT !.shaders = @ \cup {vs.created, fs.created},
                                     !.programs = @ \cup {p.program}]]

-----------------------------------------------------------------------------
(* loadFont: log.Fatal on an unreadable or unparseable file *)

\* The parse error going unchecked: NewFont carries on with what ParseFont left.
loadFontUnchecked(fontPath) ==
    IF ~fontPath.readable THEN [fatal |-> TRUE]
    ELSE [fatal |-> FALSE, font |-> fontPath.font]

loadFont(fontPath) ==
    IF ~fontPath.readable THEN [fatal |-> TRUE]
    ELSE IF ~fontPath.parseable THEN [fatal |-> TRUE]
    ELSE [fatal |-> FALSE, font |-> fontPath.font]

-----------------------------------------------------------------------------
(* NewFont *)

\* The Font value NewFont returns: vs and fs are not among the fields it sets.
FontValue(program, vao, vbo, offsets) ==
    [program |-> program, vs |-> 0, fs |-> 0,
     positionAttrib |-> "position", colorUniform |-> "color",
     offsetUniform |-> "offset",
     vao |-> vao, vbo |-> vbo, offsets |-> offsets, color |-> <<1, 1, 1, 1>>]

\* Lines 33-77: the context after the call, given the atlas a that generateAtlas
\* returned.  A data store keeps the size of what was uploaded, and names the
\* generateAtlas call (from) that produced the contents instead of repeating them.
Upload(c, drv, a, from) ==
    LET cp   == createProgram(c, drv)
        vao  == FreshName(Generated(c, "vao"))
        vbo  == FreshName(Generated(c, "vbo"))
        tex  == FreshName(Generated(c, "tex"))
    IN  [objs     |-> [cp.objs EXCEPT !.vaos = @ \cup {vao},
                                      !.buffers = @ \cup {vbo},
                                      !.textures = @ \cup {tex}],
         progs    |-> c.progs @@ (cp.program :> cp.attached),
         bufData  |-> c.bufData @@ (vbo :> [size |-> 16 * Len(a.verts),
                                            coords |-> from]),
         texImage |-> c.texImage @@ (tex :> [Dx |-> a.img.Dx, Dy |-> a.img.Dy,
                                             pix |-> from]),
         \* vao.Bind ... vao.Unbind and vbo.Bind ... vbo.Unbind are paired;
         \* tex.Bind(gl.TEXTURE_2D) on unit 0 is never undone.
         gl       |-> [c.gl EXCEPT !.vao = 0, !.arrayBuffer = 0, !.texture2D = tex],
         fonts    |-> Append(c.fonts, FontValue(cp.program, vao, vbo, a.offsets)),
         created  |-> Append(c.created,
                             [vs |-> cp.vs, fs |-> cp.fs, program |-> cp.program,
                              vao |-> vao, vbo |-> vbo, tex |-> tex])]

\* Lines 32-77, from a font that loaded.
Construct(c, drv, font, scale, width, height) ==
    Upload(c, drv, generateAtlas(font, scale, width, height),
           [font |-> font, scale |-> scale, width |-> width, height |-> height])

\* The caller's context becomes c.
Becomes(c) ==
    /\ objs' = c.objs
    /\ progs' = c.progs
    /\ bufData' = c.bufData
    /\ texImage' = c.texImage
    /\ gl' = c.gl
    /\ fonts' = c.fonts
    /\ created' = c.created

\* What a call saw on entry.
Entry == [blend |-> gl.blend, objs |-> objs]

NewFont(fontPath, scale, width, height) ==
    /\ status = "running"
    /\ Len(fonts) < MaxFonts
    /\ LET loaded == loadFont(fontPath)
           args   == [op |-> "NewFont", fontPath |-> fontPath, scale |-> scale,
                      width |-> width, height |-> height, pre |-> Entry]
       IN  IF loaded.fatal
           THEN /\ status' = "exited"
                /\ call' = args @@ [exit |-> "fatal"]
                /\ UNCHANGED <<objs, progs, bufData, texImage, gl, fonts, created>>
           ELSE     /\ Becomes(Construct(Context, driver, loaded.font,
                                          scale, width, height))
                    /\ call' = args @@ [exit |-> "return"]
                    /\ UNCHANGED status
    /\ UNCHANGED <<driver, deleted, atlas, draws>>

-----------------------------------------------------------------------------
(* Font.Printf *)

\* Lines 155-159: blending on, the font's program and vertex array bound.
PrintfEntry(g, this) ==
    [g EXCEPT !.blend = TRUE,
              !.blendFunc = <<"SRC_ALPHA", "ONE_MINUS_SRC_ALPHA">>,
              !.program = this.program,
              !.vao = this.vao]

\* The exit without gl.Disable(gl.BLEND).
PrintfExitBlendLeft(g) ==
    [g EXCEPT !.vao = 0, !.program = 0]

\* Lines 173-175, reached when the loop runs to its end.
PrintfExit(g) ==
    [g EXCEPT !.vao = 0, !.program = 0, !.blend = FALSE]

\* gl.DrawArrays under the context g with the offset uniform as last set.  The
\* sampler "tex" is 0 (line 54 can only write 0), so the fragment stage samples
\* the TEXTURE_2D binding of unit 0, the only unit ever made active (line 51).
DrawArrays(g, offsetUniform, mode, first, count) ==
    [mode |-> mode, first |-> first, count |-> count, offset |-> offsetUniform,
     blend |-> g.blend, blendFunc |-> g.blendFunc, program |-> g.program,
     vao |-> g.vao, texture2D |-> g.texture2D]

\* The iteration with the advance added before the offset uniform is set.
PrintfStepAdvanceFirst(this, g, x, y, ch, st) ==
    LET index == ch - 32
    IN  IF index < 0 \/ index >= Len(this.offsets)
        THEN [st EXCEPT !.panic = TRUE]
        ELSE LET offset == this.offsets[index + 1]
             IN  [st EXCEPT
                    !.draws = Append(@, DrawArrays(g, <<x + st.totalOffset + offset, y>>,
                                                   "TRIANGLE_STRIP", index * 4, 4)),
                    !.totalOffset = @ + offset]

\* The iteration with the draw issued before the advance is read.
PrintfStepDrawFirst(this, g, x, y, ch, st) ==
    LET index == ch - 32
        drawn == [st EXCEPT
                    !.draws = Append(@, DrawArrays(g, <<x + st.totalOffset, y>>,
                                                   "TRIANGLE_STRIP", index * 4, 4))]
    IN  IF index < 0 \/ index >= Len(this.offsets)
        THEN [drawn EXCEPT !.panic = TRUE]
        ELSE [drawn EXCEPT !.totalOffset = @ + this.offsets[index + 1]]

\* One iteration of the loop for character ch.  The read this.offsets[index]
\* is bounds-checked by the runtime and panics before anything is drawn.
PrintfStep(this, g, x, y, ch, st) ==
    LET index == ch - 32
    IN  IF index < 0 \/ index >= Len(this.offsets)
        THEN [st EXCEPT !.panic = TRUE]
        ELSE LET offset == this.offsets[index + 1]
             IN  [st EXCEPT
                    !.draws = Append(@, DrawArrays(g, <<x + st.totalOffset, y>>,
                                                   "TRIANGLE_STRIP", index * 4, 4)),
                    !.totalOffset = @ + offset]

RECURSIVE PrintfLoop(_, _, _, _, _, _, _)
PrintfLoop(this, g, x, y, s, k, st) ==
    IF k > Len(s) \/ st.panic
    THEN st
    ELSE PrintfLoop(this, g, x, y, s, k + 1, PrintfStep(this, g, x, y, s[k], st))

\* s is the string fmt.Sprintf returns.  A panic unwinds past lines 173-175;
\* the caller either recovers and goes on, or the process dies.
Printf(f, x, y, s, recovered) ==
    /\ status = "running"
    /\ f \in DOMAIN fonts
    /\ f \notin deleted
    /\ LET this == fonts[f]
           g    == PrintfEntry(gl, this)
           st   == PrintfLoop(this, g, x, y, s, 1,
                              [totalOffset |-> 0, draws |-> <<>>, panic |-> FALSE])
       IN  /\ draws' = st.draws
           /\ gl' = IF st.panic THEN g ELSE PrintfExit(g)
           /\ status' = IF st.panic /\ ~recovered THEN "panicked" ELSE "running"
           /\ call' = [op |-> "Printf", f |-> f, x |-> x, y |-> y, s |-> s,
                       pre |-> Entry,
                       exit |-> IF st.panic THEN "panic" ELSE "return"]
    /\ UNCHANGED <<driver, objs, progs, bufData, texImage, fonts, deleted,
                   created, atlas>>

-----------------------------------------------------------------------------
(* Font.Delete *)

\* glDelete* of a name: 0 and unknown names are ignored.
DeleteName(live, name) == live \ {name}

Delete(f) ==
    /\ status = "running"
    /\ f \in DOMAIN fonts
    /\ f \notin deleted
    /\ LET this == fonts[f]
       IN  /\ objs' = [objs EXCEPT
                         !.shaders  = DeleteName(DeleteName(@, this.vs), this.fs),
                         !.programs = DeleteName(@, this.program),
                         !.buffers  = DeleteName(@, this.vbo),
                         !.vaos     = DeleteName(@, this.vao)]
           \* deleting the bound vertex array resets the binding to 0
           /\ gl' = IF gl.vao = this.vao THEN [gl EXCEPT !.vao = 0] ELSE gl
           /\ call' = [op |-> "Delete", f |-> f, pre |-> Entry, exit |-> "return"]
    /\ deleted' = deleted \cup {f}
    /\ UNCHANGED <<status, driver, progs, bufData, texImage, fonts, created,
                   atlas, draws>>

-----------------------------------------------------------------------------
(* Inputs *)

FontA == [box |-> [XMin |-> -1, XMax |-> 2, YMin |-> -1, YMax |-> 3],
          mono |-> FALSE, adv |-> 1]

FontB == [box |-> [XMin |-> 0, XMax |-> 1, YMin |-> 0, YMax |-> 1],
          mono |-> TRUE, adv |-> 2]

FontC == [box |-> [XMin |-> 0, XMax |-> 5, YMin |-> -2, YMax |-> 0],
          mono |-> FALSE, adv |-> 0]

File(font) == [readable |-> TRUE, parseable |-> TRUE, font |-> font]

Unreadable == [readable |-> FALSE, parseable |-> FALSE, font |-> FontA]

Unparseable == [readable |-> TRUE, parseable |-> FALSE, font |-> FontA]

\* The NewFont calls of the lifecycle specification.
FontCalls ==
    { [fontPath |-> File(FontA), scale |-> 1, width |-> 1, height |-> 1],
      [fontPath |-> File(FontB), scale |-> 2, width |-> 2, height |-> 2],
      [fontPath |-> Unreadable,  scale |-> 1, width |-> 1, height |-> 1],
      [fontPath |-> Unparseable, scale |-> 1, width |-> 2, height |-> 1] }

Loadable(fontPath) == fontPath.readable /\ fontPath.parseable

\* Characters just outside and at both ends of the glyph range.
Chars == {low - 1, low, high, high + 1}

RECURSIVE StringsOf(_)
StringsOf(n) ==
    IF n = 0 THEN {<<>>}
    ELSE LET shorter == StringsOf(n - 1)
         IN  shorter \cup {Append(s, c) : s \in {t \in shorter : Len(t) = n - 1},
                                          c \in Chars}

Strings == StringsOf(MaxLen)

\* The strings drawn while several fonts are alive: at most one character.
ShortStrings == {s \in Strings : Len(s) <= 1}

\* Where strings are drawn: away from the origin in both coordinates.
Positions == {<<3, -2>>}

Drivers == [vsOk : BOOLEAN, fsOk : BOOLEAN]

\* Scales up to 2^25, where gw * glyphCount passes 2^31.
Scales == {0, 1, 2, 3, 5, TwoTo(25)}

\* The generateAtlas calls of the atlas specification: gw * glyphCount < 2^32.
AtlasInputs ==
    { in \in [font : {FontA, FontB, FontC}, scale : Scales,
              width : {1, 2}, height : {1, 2}] :
        ((in.font.box.XMax - in.font.box.XMin) * in.scale) \div Limb
            < Limb \div (high - low + 1) }

-----------------------------------------------------------------------------
(* Specifications *)

NoAtlas ==
    [verts |-> <<>>, offsets |-> <<>>,
     img |-> [Dx |-> U32Zero, Dy |-> U32Zero, glyphs |-> <<>>]]

InitFrom(c) ==
    /\ status = "running"
    /\ objs = c.objs
    /\ progs = c.progs
    /\ bufData = c.bufData
    /\ texImage = c.texImage
    /\ gl = c.gl
    /\ fonts = c.fonts
    /\ created = c.created
    /\ deleted = {}
    /\ atlas = NoAtlas
    /\ draws = <<>>

\* The lifecycle: fonts are created, drawn with and deleted in one context.
Init ==
    /\ InitFrom(EmptyContext)
    /\ driver \in Drivers
    /\ call = [op |-> "none"]

DoNewFont ==
    \E c \in FontCalls : NewFont(c.fontPath, c.scale, c.width, c.height)

DoPrintf ==
    \E f \in 1..MaxFonts, p \in Positions, s \in ShortStrings, recovered \in BOOLEAN :
        Printf(f, p[1], p[2], s, recovered)

DoDelete == \E f \in 1..MaxFonts : Delete(f)

Next == DoNewFont \/ DoPrintf \/ DoDelete

Spec == Init /\ [][Next]_vars

\* Drawing: one font has been constructed, and strings are drawn with it.
InitDraw ==
    /\ driver = [vsOk |-> TRUE, fsOk |-> TRUE]
    /\ \E c \in {d \in FontCalls : Loadable(d.fontPath)} :
          InitFrom(Construct(EmptyContext, driver, loadFont(c.fontPath).font,
                             c.scale, c.width, c.height))
    /\ call = [op |-> "NewFont"]

DrawString ==
    \E p \in Positions, s \in Strings, recovered \in BOOLEAN :
        Printf(1, p[1], p[2], s, recovered)

NextDraw == DrawString

SpecDraw == InitDraw /\ [][NextDraw]_vars

\* generateAtlas as a function of its arguments.
InitAtlas ==
    /\ InitFrom(EmptyContext)
    /\ driver = [vsOk |-> TRUE, fsOk |-> TRUE]
    /\ \E in \in AtlasInputs : call = [op |-> "args", in |-> in]

RunGenerateAtlas ==
    /\ call.op = "args"
    /\ atlas' = generateAtlas(call.in.font, call.in.scale, call.in.width,
                              call.in.height)
    /\ call' = [call EXCEPT !.op = "generateAtlas"]
    /\ UNCHANGED <<status, driver, objs, progs, bufData, texImage, gl, fonts,
                   deleted, created, draws>>

NextAtlas == RunGenerateAtlas

SpecAtlas == InitAtlas /\ [][NextAtlas]_vars

-----------------------------------------------------------------------------
(* Properties *)

\* a <= b on 32-bit values
U32Le(a, b) == a[1] < b[1] \/ (a[1] = b[1] /\ a[2] <= b[2])

\* a is one of 2^0 .. 2^31
U32IsPow2(a) ==
    \E k \in 0..15 : a = <<0, TwoTo(k)>> \/ a = <<TwoTo(k), 0>>

InGlyphRange(ch) == ch >= 32 /\ ch <= 127

\* The position of the first character of s outside 32..127, Len(s) + 1 if none.
FirstOutside(s) ==
    IF \A k \in 1..Len(s) : InGlyphRange(s[k]) THEN Len(s) + 1
    ELSE CHOOSE k \in 1..Len(s) :
            /\ ~InGlyphRange(s[k])
            /\ \A j \in 1..(k - 1) : InGlyphRange(s[j])

\* The sum of the advance-table entries of the first n characters of s.
RECURSIVE AdvanceSum(_, _, _)
AdvanceSum(table, s, n) ==
    IF n = 0 THEN 0 ELSE AdvanceSum(table, s, n - 1) + table[s[n] - 32 + 1]

\* The cell size generateAtlas takes from the font's bounding box.
CellWidth(in) == (in.font.box.XMax - in.font.box.XMin) * in.scale

CellHeight(in) == (in.font.box.YMax - in.font.box.YMin) * in.scale

\* C1: a string whose characters all lie in 32..127 is drawn with exactly one
\* draw per character, in order; the k-th draw is a triangle strip of 4
\* vertices starting at vertex 4 * (code - 32), with the offset uniform at
\* (x + the advances of the characters before it, y).
C1_OneDrawPerCharacter ==
    (call.op = "Printf" /\ FirstOutside(call.s) > Len(call.s)) =>
        /\ Len(draws) = Len(call.s)
        /\ \A k \in 1..Len(call.s) :
              /\ draws[k].mode = "TRIANGLE_STRIP"
              /\ draws[k].count = 4
              /\ draws[k].first = 4 * (call.s[k] - 32)
              /\ draws[k].offset =
                    <<call.x + AdvanceSum(fonts[call.f].offsets, call.s, k - 1),
                      call.y>>

\* Three equal characters of advance a > 0 drawn at x, x + a, x + 2a, x # 0.
C1_Witness ==
    /\ call.op = "Printf"
    /\ call.x # 0
    /\ Len(call.s) = 3
    /\ call.s[1] = call.s[2] /\ call.s[2] = call.s[3]
    /\ InGlyphRange(call.s[1])
    /\ LET a == fonts[call.f].offsets[call.s[1] - 32 + 1]
       IN  /\ a > 0
           /\ Len(draws) = 3
           /\ draws[1].offset = <<call.x, call.y>>
           /\ draws[2].offset = <<call.x + a, call.y>>
           /\ draws[3].offset = <<call.x + 2 * a, call.y>>

\* C2: a Printf entered with blending disabled issues every draw with blending
\* enabled under (SRC_ALPHA, ONE_MINUS_SRC_ALPHA) and has blending disabled when
\* it returns; for the empty string it returns with no draw and with the blend
\* flag as it was on entry.
C2_BlendBracket ==
    (call.op = "Printf" /\ ~call.pre.blend) =>
        /\ \A k \in 1..Len(draws) :
              /\ draws[k].blend
              /\ draws[k].blendFunc = <<"SRC_ALPHA", "ONE_MINUS_SRC_ALPHA">>
        /\ (call.exit = "return" => ~gl.blend)
        /\ (call.s = <<>> =>
              /\ draws = <<>>
              /\ call.exit = "return"
              /\ gl.blend = call.pre.blend)

\* A Printf entered with blending disabled that drew twice and returned.
C2_Witness ==
    /\ call.op = "Printf"
    /\ ~call.pre.blend
    /\ call.exit = "return"
    /\ Len(draws) >= 2
    /\ draws[1].blend
    /\ ~gl.blend

\* C3: a Printf that returns has drawn with the font's own program, vertex
\* array and atlas texture bound, and leaves none of the three bound.
C3_BindsAndUnbindsAllThree ==
    (call.op = "Printf" /\ call.exit = "return") =>
        /\ \A k \in 1..Len(draws) :
              /\ draws[k].program = fonts[call.f].program
              /\ draws[k].vao = fonts[call.f].vao
              /\ draws[k].texture2D = created[call.f].tex
        /\ gl.program # fonts[call.f].program
        /\ gl.vao # fonts[call.f].vao
        /\ gl.texture2D # created[call.f].tex

\* C4: once Delete has run on a font, both shader stages, the program, the
\* vertex buffer and the vertex array its NewFont created are released; and a
\* Printf leaves the set of live GL objects as it found it.
C4_DeleteReleasesAll ==
    /\ \A f \in deleted :
          /\ created[f].vs \notin objs.shaders
          /\ created[f].fs \notin objs.shaders
          /\ created[f].program \notin objs.programs
          /\ created[f].vbo \notin objs.buffers
          /\ created[f].vao \notin objs.vaos
    /\ (call.op = "Printf" => objs = call.pre.objs)

\* C5: generateAtlas returns 384 vertices and 96 advances in ascending
\* character order: the i-th glyph rasterised is character 32 + i, vertices
\* [4i, 4i + 4) carry the texture columns of the cell it was drawn in, and
\* advance i is the advance of character 32 + i.
C5_AtlasLayout ==
    call.op = "generateAtlas" =>
        /\ Len(atlas.verts) = 384
        /\ Len(atlas.offsets) = 96
        /\ Len(atlas.img.glyphs) = 96
        /\ \A i \in 0..95 :
              LET glyph == atlas.img.glyphs[i + 1]
                  left  == Frac(glyph.x, atlas.img.Dx)
                  right == Frac(U32Add(glyph.x, U32(CellWidth(call.in))),
                                atlas.img.Dx)
              IN  /\ glyph.ch = 32 + i
                  /\ glyph.x = U32Mul(CellWidth(call.in), i)
                  /\ atlas.verts[4 * i + 1][3] = left
                  /\ atlas.verts[4 * i + 2][3] = right
                  /\ atlas.verts[4 * i + 3][3] = left
                  /\ atlas.verts[4 * i + 4][3] = right
                  /\ atlas.offsets[i + 1] =
                        AdvanceWidth(call.in.font, call.in.scale, 32 + i)
                            * (2 \div call.in.width)

\* An atlas of cells of positive width whose first and last advances differ.
C5_Witness ==
    /\ call.op = "generateAtlas"
    /\ CellWidth(call.in) > 0
    /\ Len(atlas.verts) = 384
    /\ atlas.img.glyphs[96].ch = 127
    /\ atlas.verts[381][3] # atlas.verts[1][3]
    /\ atlas.offsets[96] # atlas.offsets[1]

\* C6: the atlas bitmap's width and height are powers of two, the width at
\* least gw * 96 and the height at least gh, so every glyph cell lies inside.
C6_AtlasPowerOfTwo ==
    call.op = "generateAtlas" =>
        /\ U32IsPow2(atlas.img.Dx)
        /\ U32IsPow2(atlas.img.Dy)
        /\ U32Le(U32Mul(CellWidth(call.in), 96), atlas.img.Dx)
        /\ U32Le(U32(CellHeight(call.in)), atlas.img.Dy)
        /\ \A i \in 0..95 :
              U32Le(U32Mul(CellWidth(call.in), i + 1), atlas.img.Dx)

\* C7: a NewFont given an unreadable or unparseable file ends the process and
\* leaves every GL object, the context state and the fonts as they were.
C7_FatalLeavesNothing ==
    [][(call'.op = "NewFont" /\ ~Loadable(call'.fontPath)) =>
          /\ status' = "exited"
          /\ call'.exit = "fatal"
          /\ UNCHANGED <<objs, progs, bufData, texImage, gl, fonts, created,
                         deleted, atlas, draws>>]_vars

\* NewFont has aborted on a readable file that does not parse, in a context
\* that already holds a font.
C7_Witness ==
    /\ status = "exited"
    /\ call.op = "NewFont"
    /\ call.fontPath.readable
    /\ ~call.fontPath.parseable
    /\ Len(fonts) >= 1
    /\ objs = call.pre.objs

\* C8: every draw of a Printf addresses a glyph index in [0, 96), vertices
\* inside [0, 384); the call panics at the first character outside 32..127,
\* having drawn exactly the characters before it and nothing after.
C8_DrawsStayInRange ==
    call.op = "Printf" =>
        LET p == FirstOutside(call.s)
        IN  /\ Len(fonts[call.f].offsets) = 96
            /\ bufData[fonts[call.f].vbo].size = 16 * 384
            /\ \A k \in 1..Len(draws) :
                  /\ draws[k].first % 4 = 0
                  /\ draws[k].first \div 4 \in 0..95
                  /\ draws[k].first >= 0
                  /\ draws[k].first + draws[k].count <= 384
            /\ Len(draws) = p - 1
            /\ \A k \in 1..Len(draws) : draws[k].first = 4 * (call.s[k] - 32)
            /\ (call.exit = "panic") = (p <= Len(call.s))

\* A Printf cut short at its third character, code 128, after two draws.
C8_Witness ==
    /\ call.op = "Printf"
    /\ call.exit = "panic"
    /\ Len(call.s) = 3
    /\ call.s[3] = 128
    /\ Len(draws) = 2

\* C9: however Printf is left, blending is disabled and the font's program
\* and vertex array are no longer bound.
C9_RestoredOnEveryExit ==
    call.op = "Printf" =>
        /\ ~gl.blend
        /\ gl.program # fonts[call.f].program
        /\ gl.vao # fonts[call.f].vao

\* C10: every draw of a font's Printf samples the texture built for that font.
C10_OwnTexture ==
    call.op = "Printf" =>
        \A k \in 1..Len(draws) : draws[k].texture2D = created[call.f].tex

=============================================================================
